---- MODULE Spec2Model ----
(***************************************************************************)
(* AuthorKit Bookshelf: view-tracking pipeline.                            *)
(*                                                                         *)
(*   api/bookshelf/track-view.js   ingestion endpoint (two definitions of  *)
(*                                 handler live in the file: lines 23-102  *)
(*                                 and lines 123-174)                      *)
(*   api/_lib/env-validator.js     rateLimit, getClientIp, validateInput   *)
(*   api/bookshelf/books.js        catalog read endpoint                   *)
(*   DATABASE-SCHEMA.sql           tables, materialized views, refresh     *)
(*   js/bookshelf.js               browser-side view deduplicator          *)
(***************************************************************************)
EXTENDS Integers, Sequences, FiniteSets, TLC

VARIABLES
    rateLimitStore,              \* env-validator.js:337  Map, in insertion order
    now,                         \* Date.now() in milliseconds
    bookshelf_books,             \* DATABASE-SCHEMA.sql:23  rows [id, site_url]
    bookshelf_book_genres,       \* DATABASE-SCHEMA.sql:55  rows [book_id, genre_slug]
    bookshelf_book_views,        \* DATABASE-SCHEMA.sql:65  rows [id, book_id]
    books_id_seq,                \* BIGSERIAL of bookshelf_books.id
    views_id_seq,                \* BIGSERIAL of bookshelf_book_views.id
    bookshelf_book_view_counts,  \* DATABASE-SCHEMA.sql:97  materialized rows [book_id, view_count]
    bookshelf_stats,             \* DATABASE-SCHEMA.sql:109 materialized single row
    refreshTx,                   \* the REFRESH MATERIALIZED VIEW statement in progress, if any
    sqlResult,                   \* what the last SQL statement of a client came to
    datastoreUp,                 \* whether the datastore answers
    res,                         \* the response written by the last handler run
    cards,                       \* bookshelf.js:181 cards under viewObserver, by dataset.bookId
    viewedBooks,                 \* bookshelf.js:15  Set of book ids seen in this page session
    fetchCalls,                  \* bookshelf.js:44  the POSTs trackBookView issued, in order
    inFlight,                    \* fetch promises not yet settled (indices into fetchCalls)
    promises,                    \* bookshelf.js:42  the promise of each trackBookView call
    posts,                       \* observer: POSTs each identifier sent in the current window
    observed,                    \* observer: highest count rateLimit gave each identifier in the current window
    everVisible,                 \* observer: book ids that had a visible notification
    validateCall,                \* env-validator.js:418  the last call of validateInput and what it returned
    timeout,                     \* bookshelf.js:290  the timer id the debounced function holds (0: undefined)
    timers,                      \* the browser's pending timers [id, due, args]
    timerSeq,                    \* the last timer id setTimeout gave out
    clock,                       \* the browser's time, in ticks
    debounceLog                  \* observer: calls of the debounced function and invocations of func, in order

vars == <<rateLimitStore, now, bookshelf_books, bookshelf_book_genres,
          bookshelf_book_views, books_id_seq, views_id_seq,
          bookshelf_book_view_counts, bookshelf_stats, refreshTx, sqlResult,
          datastoreUp, res, cards, viewedBooks, fetchCalls, inFlight, promises,
          posts, observed, everVisible, validateCall, timeout, timers, timerSeq,
          clock, debounceLog>>

dbVars     == <<bookshelf_books, bookshelf_book_genres, bookshelf_book_views,
                books_id_seq, views_id_seq>>
matVars    == <<bookshelf_book_view_counts, bookshelf_stats>>
txVars     == <<refreshTx, sqlResult>>
clientVars == <<cards, viewedBooks, fetchCalls, inFlight, promises, everVisible>>
obsVars    == <<posts, observed>>
utilVars   == <<validateCall, timeout, timers, timerSeq, clock, debounceLog>>

----------------------------------------------------------------------------
(* Bounds of the model *)

\* The quota the handler passes to rateLimit (track-view.js:42 passes 100);
\* the model runs the limiter with this smaller quota.
MaxRequests == 2

\* The size ceiling of rateLimitStore (env-validator.js:390 uses 10000);
\* the model runs the limiter with this smaller ceiling.
StoreCeiling == 2

\* Clock ticks of half a window each that the model lets pass.
MaxTicks == 2

\* POSTs one identifier may send in one window beyond the quota.
MaxExtraPosts == 1

\* Rows bookshelf_book_views may receive (cap on views_id_seq).
MaxViews == 2

\* Books the sync side may insert (cap on books_id_seq).
MaxBooks == 5

\* Books the sync side may insert while view events are being aggregated.
AggBooks == 2

\* Cards one page session creates.
MaxCards == 3

\* Entries the browser hands to one run of the observer callback.
MaxEntries == 2

\* POSTs one page session may issue.
MaxFetches == 4

\* The `wait` handed to debounce, in ticks of the browser's time.
DebounceWait == 2

\* Ticks of the browser's time that the model lets pass.
MaxClock == 5

\* Calls of the debounced function in one run.
MaxCalls == 3

----------------------------------------------------------------------------
(* Program constants *)

\* The window the handler passes to rateLimit (track-view.js:42)
WindowMs == 3600000

TickMs == WindowMs \div 2

Identifiers == {"a", "b"}

\* HTTP_STATUS of api/_lib/errors.js
HTTP_STATUS == [OK |-> 200, BAD_REQUEST |-> 400, METHOD_NOT_ALLOWED |-> 405,
                TOO_MANY_REQUESTS |-> 429, INTERNAL_ERROR |-> 500]

----------------------------------------------------------------------------
(* JavaScript values, as far as the handlers look at them.  A string is a  *)
(* sequence of one-character strings so that Number() and parseInt() can   *)
(* be computed on it.                                                      *)

JSUndefined  == [type |-> "undefined", num |-> 0, nan |-> FALSE, str |-> <<>>]
JSNull       == [type |-> "object",    num |-> 0, nan |-> FALSE, str |-> <<>>]
JSNumber(n)  == [type |-> "number",    num |-> n, nan |-> FALSE, str |-> <<>>]
JSNaN        == [type |-> "number",    num |-> 0, nan |-> TRUE,  str |-> <<>>]
JSString(s)  == [type |-> "string",    num |-> 0, nan |-> FALSE, str |-> s]
JSBoolean(b) == [type |-> "boolean",   num |-> IF b THEN 1 ELSE 0, nan |-> FALSE, str |-> <<>>]

IsNullish(v) == v = JSUndefined \/ v = JSNull

Digits == <<"0", "1", "2", "3", "4", "5", "6", "7", "8", "9">>

IsDigit(c) == \E d \in 1..10 : Digits[d] = c

DigitValue(c) == (CHOOSE d \in 1..10 : Digits[d] = c) - 1

RECURSIVE DigitsToNat(_, _)
DigitsToNat(s, acc) ==
    IF s = <<>> THEN acc
    ELSE DigitsToNat(Tail(s), acc * 10 + DigitValue(Head(s)))

AllDigits(s) == s # <<>> /\ \A i \in 1..Len(s) : IsDigit(s[i])

RECURSIVE TrimStart(_)
TrimStart(s) ==
    IF s # <<>> /\ Head(s) = " " THEN TrimStart(Tail(s)) ELSE s

RECURSIVE TrimEnd(_)
TrimEnd(s) ==
    IF s # <<>> /\ s[Len(s)] = " " THEN TrimEnd(SubSeq(s, 1, Len(s) - 1)) ELSE s

Trim(s) == TrimEnd(TrimStart(s))

\* Number(string): StringToNumber on decimal integer literals
StringToNumber(s) ==
    LET t == Trim(s)
    IN  IF t = <<>> THEN JSNumber(0)
        ELSE IF AllDigits(t) THEN JSNumber(DigitsToNat(t, 0))
        ELSE IF Head(t) = "-" /\ AllDigits(Tail(t)) THEN JSNumber(0 - DigitsToNat(Tail(t), 0))
        ELSE IF Head(t) = "+" /\ AllDigits(Tail(t)) THEN JSNumber(DigitsToNat(Tail(t), 0))
        ELSE JSNaN

\* Number(value)
Number(v) ==
    CASE v = JSUndefined      -> JSNaN
      [] v = JSNull           -> JSNumber(0)
      [] v.type = "boolean"   -> JSNumber(v.num)
      [] v.type = "number"    -> v
      [] v.type = "string"    -> StringToNumber(v.str)

isNaN(v) == Number(v).nan

\* The longest prefix of s made of digits
RECURSIVE DigitPrefix(_)
DigitPrefix(s) ==
    IF s # <<>> /\ IsDigit(Head(s)) THEN <<Head(s)>> \o DigitPrefix(Tail(s)) ELSE <<>>

\* parseInt(string)
ParseIntString(s) ==
    LET t    == TrimStart(s)
        neg  == t # <<>> /\ Head(t) = "-"
        rest == IF t # <<>> /\ Head(t) \in {"-", "+"} THEN Tail(t) ELSE t
        ds   == DigitPrefix(rest)
    IN  IF ds = <<>> THEN JSNaN
        ELSE JSNumber(IF neg THEN 0 - DigitsToNat(ds, 0) ELSE DigitsToNat(ds, 0))

\* parseInt(value): the value is first turned into a string; "true", "null"
\* and "undefined" start with no digit, an integer prints as its digits.
parseInt(v) ==
    CASE v.type = "string"               -> ParseIntString(v.str)
      [] v.type = "number" /\ ~v.nan     -> v
      [] OTHER                           -> JSNaN

\* !value
Falsy(v) ==
    \/ IsNullish(v)
    \/ v.type = "boolean" /\ v.num = 0
    \/ v.type = "number" /\ (v.nan \/ v.num = 0)
    \/ v.type = "string" /\ v.str = <<>>

\* data[field] of a plain object
Get(data, field) == IF field \in DOMAIN data THEN data[field] ELSE JSUndefined

Max(a, b) == IF a >= b THEN a ELSE b

\* Math.ceil(a / b) for a >= 0, b > 0
Ceil(a, b) == (a + b - 1) \div b

----------------------------------------------------------------------------
(* api/_lib/env-validator.js: rate limiter, client address, validation *)

\* A Map kept as the sequence of its entries [key, value] in insertion order
MapHas(m, k) == \E i \in 1..Len(m) : m[i].key = k

MapGet(m, k) == m[CHOOSE i \in 1..Len(m) : m[i].key = k].value

\* Map.set: an existing key keeps its place, a new key goes last
MapSet(m, k, v) ==
    IF MapHas(m, k)
    THEN [i \in 1..Len(m) |-> IF m[i].key = k THEN [key |-> k, value |-> v] ELSE m[i]]
    ELSE Append(m, [key |-> k, value |-> v])

MapDeleteNone(m) == m

MapDeleteSecond(m) == <<Head(m)>> \o Tail(Tail(m))

\* Map.delete(map.keys().next().value): drops the first inserted entry
MapDeleteFirst(m) == Tail(m)

\* rateLimit(identifier, maxRequests, windowMs) on the store `store` at time t;
\* the key `${identifier}:${floor(now / windowMs)}` is kept as a record.
rateLimit(store, t, identifier, maxRequests, windowMs) ==
    LET key          == [identifier |-> identifier, window |-> t \div windowMs]
        requestCount == (IF MapHas(store, key) THEN MapGet(store, key) ELSE 0) + 1
        written      == MapSet(store, key, requestCount)
        cleaned      == IF Len(written) > StoreCeiling THEN MapDeleteFirst(written) ELSE written
        allowed      == requestCount <= maxRequests
    IN  [store      |-> cleaned,
         allowed    |-> allowed,
         retryAfter |-> IF allowed THEN 0 ELSE Ceil(windowMs, 1000),
         remaining  |-> Max(0, maxRequests - requestCount)]

\* getClientIp(req).  req.xff is the x-forwarded-for header split at ","
\* (<<>> when the header is absent); "" stands for an absent or empty value.
getClientIp(req) ==
    IF req.xff # <<>> /\ Head(req.xff) # "" THEN Head(req.xff)
    ELSE IF req.realIp # "" THEN req.realIp
    ELSE IF req.remoteAddress # "" THEN req.remoteAddress
    ELSE "unknown"

IsEmptyValue(v) == IsNullish(v) \/ v = JSString(<<>>)

\* One pass of the loop body of validateInput for the schema entry `rule`:
\* the errors it pushes and the value it stores in `sanitized`, if any.
ValidateField(data, rule) ==
    LET value == Get(data, rule.field)
        fail(r) == [errors |-> <<[field |-> rule.field, rule |-> r]>>, set |-> FALSE, value |-> JSUndefined]
        skip    == [errors |-> <<>>, set |-> FALSE, value |-> JSUndefined]
        tooShort == rule.minLength > 0 /\ Len(value.str) < rule.minLength
        tooLong  == rule.maxLength > 0 /\ Len(value.str) > rule.maxLength
    IN  IF rule.required /\ IsEmptyValue(value) THEN fail("is required")
        ELSE IF ~rule.required /\ IsEmptyValue(value) THEN skip
        ELSE IF rule.type = "string" /\ value.type # "string" THEN fail("must be a string")
        ELSE IF rule.type = "number"
             THEN IF value.type # "number" /\ isNaN(Number(value))
                  THEN fail("must be a number")
                  ELSE [errors |-> <<>>, set |-> TRUE, value |-> Number(value)]
        ELSE IF rule.type = "boolean" /\ value.type # "boolean" THEN fail("must be a boolean")
        ELSE IF rule.type = "array" /\ value.type # "array" THEN fail("must be an array")
        ELSE IF value.type = "string"
             THEN [errors |-> (IF tooShort THEN <<[field |-> rule.field, rule |-> "too short"]>> ELSE <<>>)
                              \o (IF tooLong THEN <<[field |-> rule.field, rule |-> "too long"]>> ELSE <<>>),
                   set    |-> TRUE,
                   value  |-> JSString(Trim(value.str))]
             ELSE [errors |-> <<>>, set |-> TRUE, value |-> value]

RECURSIVE ValidateFrom(_, _, _, _, _)
ValidateFrom(data, schema, i, errors, sanitized) ==
    IF i > Len(schema)
    THEN [isValid |-> (Len(errors) = 0), errors |-> errors, data |-> sanitized]
    ELSE LET r == ValidateField(data, schema[i])
         IN  ValidateFrom(data, schema, i + 1, errors \o r.errors,
                          IF r.set THEN MapSet(sanitized, schema[i].field, r.value) ELSE sanitized)

\* validateInput(data, schema); schema is Object.entries(schema) in order,
\* the sanitized object is kept as a Map of its fields.
validateInput(data, schema) == ValidateFrom(data, schema, 1, <<>>, <<>>)

\* validateInput has not been called on its own yet
NoValidateCall == [called |-> FALSE, data |-> <<>>, schema |-> <<>>,
                   result |-> [isValid |-> TRUE, errors |-> <<>>, data |-> <<>>]]

\* A call validateInput(data, schema) by any importer of env-validator.js
callValidateInput(data, schema) ==
    /\ validateCall' = [called |-> TRUE, data |-> data, schema |-> schema,
                        result |-> validateInput(data, schema)]
    /\ UNCHANGED <<rateLimitStore, now, dbVars, matVars, txVars, datastoreUp, res,
                   clientVars, obsVars, timeout, timers, timerSeq, clock, debounceLog>>

----------------------------------------------------------------------------
(* Requests and responses *)

\* What res.json() was given: the fields a caller of the endpoints can see.
\* "absent" marks a body that carries no such field.
Body(success, tracked, retryAfter, message, errors) ==
    [success |-> success, tracked |-> tracked, retryAfter |-> retryAfter,
     message |-> message, errors |-> errors]

\* res.status(200).end()
EmptyBody == Body("absent", "absent", 0, "", <<>>)

\* api/_lib/errors.js
methodNotAllowedError(allowed) == Body("false", "absent", 0, "Method not allowed", <<>>)

rateLimitError(retryAfter) == Body("false", "absent", retryAfter, "Too many requests", <<>>)

validationError(message, errors) == Body("false", "absent", 0, message, errors)

internalError(isDevelopment, error) == Body("false", "absent", 0, "Internal server error", <<>>)

NoBody == [defined |-> FALSE, obj |-> [book_id |-> JSUndefined]]

JsonBody(v) == [defined |-> TRUE, obj |-> [book_id |-> v]]

\* The catalog part of a response of the read endpoint
NoListing == [reqPage |-> 0, reqLimit |-> 0,
              books |-> <<>>, page |-> 0, limit |-> 0, total |-> 0, pages |-> 0,
              total_books |-> 0, total_authors |-> 0]

NoResponse ==
    [endpoint |-> "none", def |-> 0, method |-> "", identifier |-> "", window |-> 0,
     reqBody |-> NoBody, limited |-> FALSE, insert |-> "none", threw |-> FALSE,
     status |-> 0, body |-> EmptyBody, listing |-> NoListing]

\* What a run of a handler came to: the status and body it sent, what the
\* datastore call came to ("none" when none was made) and whether the try
\* block threw.
Outcome(status, body, insert, threw) ==
    [status |-> status, body |-> body, insert |-> insert, threw |-> threw]

\* The response of the ingestion endpoint's definition `def` to req.
\* identifier is the limiter's identifier when the limiter was consulted.
Reply(req, def, identifier, limited, out) ==
    res' = [endpoint |-> "track-view", def |-> def, method |-> req.method,
            identifier |-> identifier, window |-> now \div WindowMs,
            reqBody |-> req.body, limited |-> limited, insert |-> out.insert,
            threw |-> out.threw, status |-> out.status, body |-> out.body,
            listing |-> NoListing]

----------------------------------------------------------------------------
(* The datastore: DATABASE-SCHEMA.sql *)

BookIds == {b.id : b \in bookshelf_books}

\* What the insert into bookshelf_book_views can come to.  An unreachable
\* datastore makes the client return {error} or reject, or never answers
\* ("hang"); a reachable one checks the foreign key of DATABASE-SCHEMA.sql:67.
InsertOutcomes(bookId) ==
    IF ~datastoreUp THEN {"error", "throw", "hang"}
    ELSE IF bookId \in BookIds THEN {"ok"}
    ELSE {"error"}

insertViewReplacing(bookId, outcome) ==
    /\ outcome = "ok" => views_id_seq < MaxViews
    /\ views_id_seq' = IF outcome = "ok" THEN views_id_seq + 1 ELSE views_id_seq
    /\ bookshelf_book_views' =
         IF outcome = "ok"
         THEN {v \in bookshelf_book_views : v.book_id # bookId}
                \cup {[id |-> views_id_seq + 1, book_id |-> bookId]}
         ELSE bookshelf_book_views
    /\ UNCHANGED <<bookshelf_books, bookshelf_book_genres, books_id_seq>>

\* supabase.from('bookshelf_book_views').insert({book_id: bookId}):
\* a stored row takes its id from the table's sequence.
insertView(bookId, outcome) ==
    /\ outcome = "ok" => views_id_seq < MaxViews
    /\ views_id_seq' = IF outcome = "ok" THEN views_id_seq + 1 ELSE views_id_seq
    /\ bookshelf_book_views' =
         IF outcome = "ok"
         THEN bookshelf_book_views \cup {[id |-> views_id_seq + 1, book_id |-> bookId]}
         ELSE bookshelf_book_views
    /\ UNCHANGED <<bookshelf_books, bookshelf_book_genres, books_id_seq>>

\* INSERT INTO bookshelf_books: the sync side stores a book of site `site`,
\* its id taken from the table's sequence; at most `cap` books are stored.
InsertBook(site, cap) ==
    /\ datastoreUp
    /\ books_id_seq < cap
    /\ books_id_seq' = books_id_seq + 1
    /\ bookshelf_books' = bookshelf_books \cup {[id |-> books_id_seq + 1, site_url |-> site]}
    /\ UNCHANGED <<bookshelf_book_genres, bookshelf_book_views, views_id_seq>>
    /\ UNCHANGED <<rateLimitStore, now, matVars, txVars, datastoreUp, res, clientVars, obsVars, utilVars>>

DeleteBookNoCascade(bookId) ==
    /\ datastoreUp
    /\ bookId \in BookIds
    /\ bookshelf_books' = {b \in bookshelf_books : b.id # bookId}
    /\ UNCHANGED <<bookshelf_book_genres, bookshelf_book_views>>
    /\ UNCHANGED <<books_id_seq, views_id_seq>>
    /\ UNCHANGED <<rateLimitStore, now, matVars, txVars, datastoreUp, res, clientVars, obsVars, utilVars>>

\* DELETE FROM bookshelf_books WHERE id = bookId, with the ON DELETE CASCADE
\* of DATABASE-SCHEMA.sql:57 and :67
DeleteBook(bookId) ==
    /\ datastoreUp
    /\ bookId \in BookIds
    /\ bookshelf_books' = {b \in bookshelf_books : b.id # bookId}
    /\ bookshelf_book_genres' = {g \in bookshelf_book_genres : g.book_id # bookId}
    /\ bookshelf_book_views' = {v \in bookshelf_book_views : v.book_id # bookId}
    /\ UNCHANGED <<books_id_seq, views_id_seq>>
    /\ UNCHANGED <<rateLimitStore, now, matVars, txVars, datastoreUp, res, clientVars, obsVars, utilVars>>

----------------------------------------------------------------------------
(* The aggregation layer: DATABASE-SCHEMA.sql, steps 3 and 6 *)

ViewCountsQueryUngrouped(views) ==
    {[book_id |-> b, view_count |-> Cardinality(views)] : b \in {v.book_id : v \in views}}

\* SELECT book_id, COUNT(*) AS view_count FROM bookshelf_book_views GROUP BY book_id
ViewCountsQuery(views) ==
    {[book_id |-> b, view_count |-> Cardinality({v \in views : v.book_id = b})] :
        b \in {v.book_id : v \in views}}

\* SELECT COUNT(*), COUNT(DISTINCT site_url), (SELECT COUNT(DISTINCT genre_slug) ...)
StatsQuery(books, genres) ==
    [total_books   |-> Cardinality(books),
     total_authors |-> Cardinality({b.site_url : b \in books}),
     total_genres  |-> Cardinality({g.genre_slug : g \in genres})]

\* The materialized views that have a UNIQUE index.  DATABASE-SCHEMA.sql:105
\* creates a plain index on bookshelf_book_view_counts; bookshelf_stats has none.
UniqueIndexed == {}

\* No REFRESH MATERIALIZED VIEW statement is in progress
NoRefresh == [view |-> "none", rows |-> {}]

\* No SQL statement was issued yet
NoStatement == [stmt |-> "none", state |-> "none", rows |-> {}]

\* What a reader of bookshelf_book_view_counts finds for a book (no row: 0)
ViewCountOf(counts, bookId) ==
    IF \E r \in counts : r.book_id = bookId
    THEN (CHOOSE r \in counts : r.book_id = bookId).view_count
    ELSE 0

refreshViewCountsLate ==
    /\ datastoreUp
    /\ refreshTx = NoRefresh
    /\ bookshelf_book_view_counts' =
           ViewCountsQuery({v \in bookshelf_book_views : v.id < views_id_seq})
    /\ UNCHANGED <<bookshelf_stats, txVars, dbVars, rateLimitStore, now, datastoreUp, res,
                   clientVars, obsVars, utilVars>>

\* REFRESH MATERIALIZED VIEW bookshelf_book_view_counts
refreshViewCounts ==
    /\ datastoreUp
    /\ refreshTx = NoRefresh
    /\ bookshelf_book_view_counts' = ViewCountsQuery(bookshelf_book_views)
    /\ UNCHANGED <<bookshelf_stats, txVars, dbVars, rateLimitStore, now, datastoreUp, res,
                   clientVars, obsVars, utilVars>>

\* REFRESH MATERIALIZED VIEW bookshelf_stats
refreshStats ==
    /\ datastoreUp
    /\ refreshTx = NoRefresh
    /\ bookshelf_stats' = StatsQuery(bookshelf_books, bookshelf_book_genres)
    /\ UNCHANGED <<bookshelf_book_view_counts, txVars, dbVars, rateLimitStore, now,
                   datastoreUp, res, clientVars, obsVars, utilVars>>

\* SELECT refresh_bookshelf_views(): both views are refreshed CONCURRENTLY in
\* one transaction.  REFRESH ... CONCURRENTLY raises an error on a view that
\* has no UNIQUE index, and the error rolls the whole call back.
refresh_bookshelf_views ==
    /\ datastoreUp
    /\ refreshTx = NoRefresh
    /\ IF {"bookshelf_book_view_counts", "bookshelf_stats"} \subseteq UniqueIndexed
       THEN /\ bookshelf_book_view_counts' = ViewCountsQuery(bookshelf_book_views)
            /\ bookshelf_stats' = StatsQuery(bookshelf_books, bookshelf_book_genres)
            /\ sqlResult' = [stmt |-> "refresh_bookshelf_views", state |-> "ok", rows |-> {}]
       ELSE /\ UNCHANGED matVars
            /\ sqlResult' = [stmt |-> "refresh_bookshelf_views", state |-> "error", rows |-> {}]
    /\ UNCHANGED <<refreshTx, dbVars, rateLimitStore, now, datastoreUp, res, clientVars, obsVars, utilVars>>

\* REFRESH MATERIALIZED VIEW bookshelf_book_view_counts, as it runs beside
\* other statements: the statement takes an ACCESS EXCLUSIVE lock on the
\* view and computes the view's query ...
beginRefreshViewCounts ==
    /\ datastoreUp
    /\ refreshTx = NoRefresh
    /\ refreshTx' = [view |-> "bookshelf_book_view_counts",
                     rows |-> ViewCountsQuery(bookshelf_book_views)]
    /\ UNCHANGED <<matVars, sqlResult, dbVars, rateLimitStore, now, datastoreUp, res,
                   clientVars, obsVars, utilVars>>

\* ... and replaces the stored rows when it commits, which releases the lock
finishRefreshViewCounts ==
    /\ refreshTx.view = "bookshelf_book_view_counts"
    /\ bookshelf_book_view_counts' = refreshTx.rows
    /\ refreshTx' = NoRefresh
    /\ UNCHANGED <<bookshelf_stats, sqlResult, dbVars, rateLimitStore, now, datastoreUp,
                   res, clientVars, obsVars, utilVars>>

\* SELECT * FROM bookshelf_book_view_counts by a reader (granted at
\* DATABASE-SCHEMA.sql:141): its ACCESS SHARE lock waits for an ACCESS
\* EXCLUSIVE lock held on the view
selectViewCounts ==
    /\ datastoreUp
    /\ sqlResult' =
          IF refreshTx.view = "bookshelf_book_view_counts"
          THEN [stmt |-> "select_view_counts", state |-> "waiting", rows |-> {}]
          ELSE [stmt |-> "select_view_counts", state |-> "ok",
                rows |-> bookshelf_book_view_counts]
    /\ UNCHANGED <<matVars, refreshTx, dbVars, rateLimitStore, now, datastoreUp, res,
                   clientVars, obsVars, utilVars>>

----------------------------------------------------------------------------
(* api/bookshelf/books.js *)

\* books.js:20-33  the listing the handler sends
booksListing(req) ==
    [reqPage |-> req.page, reqLimit |-> req.limit,
     books |-> <<>>, page |-> 1, limit |-> 20, total |-> 0, pages |-> 0,
     total_books |-> 0, total_authors |-> 0]

booksMethodAllowedAlsoPost(req) == req.method \in {"GET", "POST"}

\* books.js:10  the methods that get past the 405
booksMethodAllowed(req) == req.method = "GET"

\* The handler of books.js.  Nothing in its try block can throw, so the
\* catch block of lines 35-42 is never entered.
booksHandler(req) ==
    /\ IF ~booksMethodAllowed(req)
       THEN res' = [NoResponse EXCEPT !.endpoint = "books", !.method = req.method,
                                      !.status = 405,
                                      !.body = Body("false", "absent", 0, "Method not allowed. Use GET.", <<>>),
                                      !.listing = [NoListing EXCEPT !.reqPage = req.page,
                                                                    !.reqLimit = req.limit]]
       ELSE res' = [NoResponse EXCEPT !.endpoint = "books", !.method = req.method,
                                      !.status = 200,
                                      !.body = Body("true", "absent", 0, "", <<>>),
                                      !.listing = booksListing(req)]
    /\ UNCHANGED <<rateLimitStore, now, dbVars, matVars, txVars, datastoreUp, clientVars, obsVars, utilVars>>

----------------------------------------------------------------------------
(* api/bookshelf/track-view.js, first definition (lines 23-102) *)

\* The schema handed to validateInput (track-view.js:52-57)
TrackViewSchema ==
    <<[field |-> "book_id", required |-> TRUE, type |-> "number",
       minLength |-> 0, maxLength |-> 0]>>

\* track-view.js:29  req.method === 'OPTIONS'
isPreflight(req) == req.method = "OPTIONS"

methodAllowedAlsoGet(req) == req.method \in {"POST", "GET"}

\* track-view.js:34  the methods that get past the 405
methodAllowed(req) == req.method = "POST"

insertFailedSurfaced ==
    Outcome(HTTP_STATUS.INTERNAL_ERROR, internalError(FALSE, "error"), "error", FALSE)

\* track-view.js:81-88  the insert returned {error}
insertFailed == Outcome(HTTP_STATUS.OK, Body("true", "false", 0, "", <<>>), "error", FALSE)

\* track-view.js:90-93
insertSucceeded == Outcome(HTTP_STATUS.OK, Body("true", "true", 0, "", <<>>), "ok", FALSE)

\* track-view.js:75  await supabase...insert(...) that is never answered:
\* the handler stays at the await and no response is written (status 0)
awaitingInsert == Outcome(0, EmptyBody, "hang", FALSE)

\* track-view.js:95-100  the catch block; insert is what the datastore call
\* had come to when the exception was thrown
caught(insert) ==
    Outcome(HTTP_STATUS.INTERNAL_ERROR, internalError(FALSE, "error"), insert, TRUE)

\* track-view.js:68  bookId <= 0
notPositive(bookId) == bookId <= 0

\* The try block of the handler (track-view.js:50-101) for a request the
\* limiter let through.
handlerTry(req, clientIp) ==
    IF ~req.body.defined
    THEN \* validateInput reads data[field] of undefined: a TypeError
         /\ Reply(req, 1, clientIp, TRUE, caught("none"))
         /\ UNCHANGED dbVars
    ELSE LET validation == validateInput(req.body.obj, TrackViewSchema)
         IN  IF ~validation.isValid
             THEN /\ Reply(req, 1, clientIp, TRUE,
                           Outcome(HTTP_STATUS.BAD_REQUEST,
                                   validationError("Validation failed", validation.errors),
                                   "none", FALSE))
                  /\ UNCHANGED dbVars
             ELSE LET bookId == MapGet(validation.data, "book_id").num
                  IN  IF notPositive(bookId)
                      THEN /\ Reply(req, 1, clientIp, TRUE,
                                    Outcome(HTTP_STATUS.BAD_REQUEST,
                                            validationError("book_id must be a positive number", <<>>),
                                            "none", FALSE))
                           /\ UNCHANGED dbVars
                      ELSE \E outcome \in InsertOutcomes(bookId) :
                             /\ insertView(bookId, outcome)
                             /\ CASE outcome = "ok"    -> Reply(req, 1, clientIp, TRUE, insertSucceeded)
                                  [] outcome = "error" -> Reply(req, 1, clientIp, TRUE, insertFailed)
                                  [] outcome = "throw" -> Reply(req, 1, clientIp, TRUE, caught("throw"))
                                  [] outcome = "hang"  -> Reply(req, 1, clientIp, TRUE, awaitingInsert)

handler(req) ==
    /\ UNCHANGED <<now, datastoreUp, matVars, txVars, clientVars, utilVars>>
    /\ IF isPreflight(req)
       THEN /\ Reply(req, 1, "", FALSE, Outcome(200, EmptyBody, "none", FALSE))
            /\ UNCHANGED <<rateLimitStore, obsVars, dbVars>>
       ELSE IF ~methodAllowed(req)
       THEN /\ Reply(req, 1, "", FALSE,
                     Outcome(HTTP_STATUS.METHOD_NOT_ALLOWED, methodNotAllowedError("POST"),
                             "none", FALSE))
            /\ UNCHANGED <<rateLimitStore, obsVars, dbVars>>
       ELSE LET clientIp        == getClientIp(req)
                rateLimitResult == rateLimit(rateLimitStore, now, clientIp, MaxRequests, WindowMs)
            IN  /\ posts[clientIp] < MaxRequests + MaxExtraPosts
                /\ posts' = [posts EXCEPT ![clientIp] = @ + 1]
                /\ observed' = [observed EXCEPT ![clientIp] =
                                    Max(@, MapGet(rateLimitResult.store,
                                                  [identifier |-> clientIp,
                                                   window |-> now \div WindowMs]))]
                /\ rateLimitStore' = rateLimitResult.store
                /\ IF ~rateLimitResult.allowed
                   THEN /\ Reply(req, 1, clientIp, TRUE,
                                 Outcome(HTTP_STATUS.TOO_MANY_REQUESTS,
                                         rateLimitError(rateLimitResult.retryAfter),
                                         "none", FALSE))
                        /\ UNCHANGED dbVars
                   ELSE handlerTry(req, clientIp)

----------------------------------------------------------------------------
(* api/bookshelf/track-view.js, second definition (lines 123-174) *)

\* track-view.js:125
methodAllowed2(req) == req.method = "POST"

\* track-view.js:152-159  the insert returned {error}
insertFailed2 == Outcome(200, Body("true", "false", 0, "", <<>>), "error", FALSE)

\* track-view.js:166-173  the catch block
caught2(insert) == Outcome(200, Body("true", "false", 0, "", <<>>), insert, TRUE)

handler2(req) ==
    /\ UNCHANGED <<now, datastoreUp, matVars, txVars, clientVars, rateLimitStore, obsVars, utilVars>>
    /\ IF ~methodAllowed2(req)
       THEN /\ Reply(req, 2, "", FALSE,
                     Outcome(405, Body("false", "absent", 0, "Method not allowed. Use POST.", <<>>),
                             "none", FALSE))
            /\ UNCHANGED dbVars
       ELSE IF ~req.body.defined
       THEN \* destructuring undefined: a TypeError
            /\ Reply(req, 2, "", FALSE, caught2("none"))
            /\ UNCHANGED dbVars
       ELSE LET book_id == Get(req.body.obj, "book_id")
            IN  IF Falsy(book_id) \/ isNaN(parseInt(book_id))
                THEN /\ Reply(req, 2, "", FALSE,
                              Outcome(400, Body("false", "absent", 0,
                                                "Invalid book_id. Must be a number.", <<>>),
                                      "none", FALSE))
                     /\ UNCHANGED dbVars
                ELSE LET bookId == parseInt(book_id).num
                     IN  \E outcome \in InsertOutcomes(bookId) :
                            /\ insertView(bookId, outcome)
                            /\ CASE outcome = "ok" ->
                                      Reply(req, 2, "", FALSE,
                                            Outcome(200, Body("true", "true", 0, "", <<>>), "ok", FALSE))
                                 [] outcome = "error" -> Reply(req, 2, "", FALSE, insertFailed2)
                                 [] outcome = "throw" -> Reply(req, 2, "", FALSE, caught2("throw"))
                                 [] outcome = "hang"  -> Reply(req, 2, "", FALSE, awaitingInsert)

----------------------------------------------------------------------------
(* js/bookshelf.js: the browser-side view deduplicator *)

RECURSIVE NatToDigits(_)
NatToDigits(n) ==
    IF n < 10 THEN <<Digits[n + 1]>> ELSE Append(NatToDigits(n \div 10), Digits[(n % 10) + 1])

\* String(value), as the DOM applies it when a dataset property is assigned
JSToString(v) ==
    CASE v.type = "string"             -> v.str
      [] v.type = "number" /\ ~v.nan /\ v.num >= 0 -> NatToDigits(v.num)
      [] v.type = "number" /\ ~v.nan /\ v.num < 0  -> <<"-">> \o NatToDigits(0 - v.num)
      [] v.type = "number" /\ v.nan    -> <<"N", "a", "N">>
      [] v.type = "boolean"            -> IF v.num = 1 THEN <<"t", "r", "u", "e">>
                                                       ELSE <<"f", "a", "l", "s", "e">>
      [] v = JSNull                    -> <<"n", "u", "l", "l">>
      [] OTHER                         -> <<"u", "n", "d", "e", "f", "i", "n", "e", "d">>

\* The books the listing hands to createBookCard
PageBooks == {[id |-> JSNumber(1)], [id |-> JSNumber(2)], [id |-> JSString(<<>>)]}

\* createBookCard(book): the card gets dataset.bookId and is put under
\* viewObserver.  The same book may be rendered again in a new card.
createBookCard(book) ==
    /\ Len(cards) < MaxCards
    /\ cards' = Append(cards, [dataset |-> [bookId |-> JSToString(book.id)]])
    /\ UNCHANGED <<viewedBooks, fetchCalls, inFlight, promises, everVisible>>
    /\ UNCHANGED <<rateLimitStore, now, dbVars, matVars, txVars, datastoreUp, res, obsVars, utilVars>>

\* trackBookView(bookId) up to its await: the POST is issued, the promise
\* of the call is pending
trackBookView(st, bookId) ==
    [st EXCEPT !.fetchCalls = Append(st.fetchCalls, [book_id |-> bookId]),
               !.inFlight   = st.inFlight \cup {Len(st.fetchCalls) + 1},
               !.promises   = Append(st.promises,
                                     [fetch |-> "pending", track |-> "pending",
                                      settledAt |-> 0])]

shouldTrackEveryTime(bookId, viewed) == ~Falsy(JSString(bookId))

\* bookshelf.js:27  bookId && !viewedBooks.has(bookId)
shouldTrack(bookId, viewed) == ~Falsy(JSString(bookId)) /\ bookId \notin viewed

\* The body of entries.forEach in the observer callback, for one entry
observeEntry(st, entry) ==
    IF entry.isIntersecting
    THEN LET bookId == cards[entry.target].dataset.bookId
         IN  IF shouldTrack(bookId, st.viewedBooks)
             THEN trackBookView([st EXCEPT !.viewedBooks = st.viewedBooks \cup {bookId}], bookId)
             ELSE st
    ELSE st

RECURSIVE observeEntries(_, _)
observeEntries(st, entries) ==
    IF entries = <<>> THEN st
    ELSE observeEntries(observeEntry(st, Head(entries)), Tail(entries))

\* The batches of entries the browser may deliver for the cards observed
EntryBatches ==
    UNION {[1..n -> [target : 1..Len(cards), isIntersecting : BOOLEAN]] : n \in 1..MaxEntries}

\* One run of the viewObserver callback
viewObserver(entries) ==
    /\ Len(fetchCalls) < MaxFetches
    /\ LET st == observeEntries([viewedBooks |-> viewedBooks, fetchCalls |-> fetchCalls,
                                 inFlight |-> inFlight, promises |-> promises], entries)
       IN  /\ viewedBooks' = st.viewedBooks
           /\ fetchCalls' = st.fetchCalls
           /\ inFlight' = st.inFlight
           /\ promises' = st.promises
    /\ everVisible' = everVisible \cup
           {cards[entries[i].target].dataset.bookId :
               i \in {j \in 1..Len(entries) : entries[j].isIntersecting}}
    /\ UNCHANGED cards
    /\ UNCHANGED <<rateLimitStore, now, dbVars, matVars, txVars, datastoreUp, res, obsVars, utilVars>>

\* What fetch() can come to: a 2xx response, a response with another
\* status (fetch resolves for those too), a network error
FetchOutcomes == {"resolved", "resolved_non2xx", "rejected"}

trackBookViewSettledUncaught(outcome) ==
    IF outcome = "rejected" THEN "rejected" ELSE "fulfilled"

\* bookshelf.js:43-54  what the promise of trackBookView comes to once the
\* fetch has settled: a rejection is caught and logged with console.debug,
\* the response of a resolved fetch is not looked at
trackBookViewSettled(outcome) == "fulfilled"

\* The fetch of one POST settles and trackBookView runs to its end.
\* settledAt keeps how many POSTs had been issued by then.
fetchSettles(call, outcome) ==
    /\ call \in inFlight
    /\ outcome \in FetchOutcomes
    /\ inFlight' = inFlight \ {call}
    /\ promises' = [promises EXCEPT ![call] =
                       [fetch |-> outcome, track |-> trackBookViewSettled(outcome),
                        settledAt |-> Len(fetchCalls)]]
    /\ UNCHANGED <<cards, viewedBooks, fetchCalls, everVisible>>
    /\ UNCHANGED <<rateLimitStore, now, dbVars, matVars, txVars, datastoreUp, res, obsVars, utilVars>>

----------------------------------------------------------------------------
(* js/bookshelf.js: debounce(func, wait), lines 289-299 *)

clearTimeoutNoop(ts, id) == ts

\* clearTimeout(id) on the pending timers ts; an id that is not pending
\* (undefined, fired or cleared) is ignored
clearTimeout(ts, id) == {t \in ts : t.id # id}

\* setTimeout(later, wait) at time t: the new timer carries the args that
\* its `later` closes over
setTimeout(ts, id, t, args) == ts \cup {[id |-> id, due |-> t + DebounceWait, args |-> args]}

\* bookshelf.js:291  executedFunction(...args), the function debounce returns
executedFunction(args) ==
    /\ Cardinality({i \in 1..Len(debounceLog) : debounceLog[i].kind = "call"}) < MaxCalls
    /\ timers' = setTimeout(clearTimeout(timers, timeout), timerSeq + 1, clock, args)
    /\ timeout' = timerSeq + 1
    /\ timerSeq' = timerSeq + 1
    /\ debounceLog' = Append(debounceLog, [kind |-> "call", at |-> clock, args |-> args])
    /\ UNCHANGED <<clock, validateCall, rateLimitStore, now, dbVars, matVars, txVars,
                   datastoreUp, res, clientVars, obsVars>>

\* bookshelf.js:292-295  the browser runs `later` of a timer that is due,
\* at its due time or any time after it
later ==
    \E t \in timers :
        /\ t.due <= clock
        /\ timers' = clearTimeout(timers \ {t}, timeout)
        /\ debounceLog' = Append(debounceLog, [kind |-> "func", at |-> clock, args |-> t.args])
        /\ UNCHANGED <<timeout, timerSeq, clock, validateCall, rateLimitStore, now, dbVars,
                       matVars, txVars, datastoreUp, res, clientVars, obsVars>>

\* The browser's time moves on by one tick
AdvanceClock ==
    /\ clock < MaxClock
    /\ clock' = clock + 1
    /\ UNCHANGED <<timeout, timers, timerSeq, debounceLog, validateCall, rateLimitStore,
                   now, dbVars, matVars, txVars, datastoreUp, res, clientVars, obsVars>>

----------------------------------------------------------------------------
(* The environment of the endpoints *)

\* Date.now() moves on by half a window
Tick ==
    /\ now < MaxTicks * TickMs
    /\ now' = now + TickMs
    /\ posts' = IF now' \div WindowMs = now \div WindowMs
                THEN posts
                ELSE [i \in DOMAIN posts |-> 0]
    /\ observed' = IF now' \div WindowMs = now \div WindowMs
                   THEN observed
                   ELSE [i \in DOMAIN observed |-> 0]
    /\ UNCHANGED <<rateLimitStore, dbVars, matVars, txVars, datastoreUp, res, clientVars, utilVars>>

\* The datastore becomes unreachable, or reachable again
SetDatastore ==
    /\ datastoreUp' = ~datastoreUp
    /\ UNCHANGED <<rateLimitStore, now, dbVars, matVars, txVars, res, clientVars, obsVars, utilVars>>

Methods == {"POST", "GET", "OPTIONS"}

\* The x-forwarded-for, x-real-ip and remoteAddress a request may carry
Origins ==
    { [xff |-> <<"a", "b">>, realIp |-> "b", remoteAddress |-> "c"],
      [xff |-> <<>>,         realIp |-> "a", remoteAddress |-> "b"],
      [xff |-> <<"">>,       realIp |-> "",  remoteAddress |-> "b"],
      [xff |-> <<>>,         realIp |-> "",  remoteAddress |-> ""] }

\* The origins whose identifier is in ids
OriginsOf(ids) == {o \in Origins : getClientIp(o) \in ids}

\* The values of book_id a JSON body may carry
BookIdValues ==
    { JSUndefined, JSNumber(1), JSNumber(2), JSNumber(0), JSNumber(0 - 5),
      JSString(<<"a", "b", "c">>), JSString(<<"1">>), JSString(<<"1", "x">>),
      JSString(<<>>), JSBoolean(TRUE) }

RequestBodies == {NoBody} \cup {JsonBody(v) : v \in BookIdValues}

Request(method, origin, body) ==
    [method |-> method, xff |-> origin.xff, realIp |-> origin.realIp,
     remoteAddress |-> origin.remoteAddress, body |-> body]

\* The requests of one caller ("a") and of a caller without address headers
Requests ==
    LET origins == OriginsOf({"a", "unknown"})
        anyone  == CHOOSE o \in origins : TRUE
    IN  {Request("POST", o, b) : o \in origins, b \in RequestBodies}
        \cup {Request(m, anyone, JsonBody(JSNumber(1))) : m \in Methods \ {"POST"}}

InitialStats == [total_books |-> 0, total_authors |-> 0, total_genres |-> 0]

\* The process has just started, the schema has just been created, the page
\* has just been loaded; the catalog holds the books `books`.
InitWith(books) ==
    /\ rateLimitStore = <<>>
    /\ now = 0
    /\ bookshelf_books = books
    /\ bookshelf_book_genres = {}
    /\ bookshelf_book_views = {}
    /\ books_id_seq = Cardinality(books)
    /\ views_id_seq = 0
    /\ bookshelf_book_view_counts = {}
    /\ bookshelf_stats = InitialStats
    /\ refreshTx = NoRefresh
    /\ sqlResult = NoStatement
    /\ datastoreUp = TRUE
    /\ res = NoResponse
    /\ cards = <<>>
    /\ viewedBooks = {}
    /\ fetchCalls = <<>>
    /\ inFlight = {}
    /\ promises = <<>>
    /\ posts = [i \in Identifiers \cup {"unknown"} |-> 0]
    /\ observed = [i \in Identifiers \cup {"unknown"} |-> 0]
    /\ everVisible = {}
    /\ validateCall = NoValidateCall
    /\ timeout = 0
    /\ timers = {}
    /\ timerSeq = 0
    /\ clock = 0
    /\ debounceLog = <<>>

Init == InitWith({[id |-> 1, site_url |-> "site1"]})

Next ==
    \/ \E req \in Requests : handler(req)
    \/ \E req \in Requests : handler2(req)
    \/ SetDatastore

Spec == Init /\ [][Next]_vars

\* The same, with every request that can be handled eventually handled
SpecFair == Spec /\ WF_vars(Next)

\* The limiter under callers "a", "b" and one without address headers, over
\* two windows
RateRequests ==
    {Request("POST", o, JsonBody(v)) :
        o \in Origins, v \in {JSNumber(2), JSString(<<"a", "b", "c">>)}}

NextRate ==
    \/ \E req \in RateRequests : handler(req)
    \/ Tick

SpecRate == Init /\ [][NextRate]_vars

\* Ingestion, the sync side and the refreshes of the view counts
\* book_id arrives as a number, or as the string the browser read from dataset.bookId
BookIdSpellings(b) == {JSNumber(b), JSString(NatToDigits(b))}

AggRequests ==
    {Request("POST", o, JsonBody(v)) :
        o \in OriginsOf({"a"}), v \in UNION {BookIdSpellings(b) : b \in 1..AggBooks}}

NextAgg ==
    \/ \E req \in AggRequests : handler(req)
    \/ \E site \in {"site1"} : InsertBook(site, AggBooks)
    \/ \E bookId \in 1..AggBooks : DeleteBook(bookId)
    \/ refreshViewCounts
    \/ refresh_bookshelf_views

SpecAgg == InitWith({}) /\ [][NextAgg]_vars

\* Readers and ingestion beside a refresh of the view counts
RefreshRequests ==
    {Request("POST", o, JsonBody(v)) : o \in OriginsOf({"a"}), v \in BookIdSpellings(1)}

NextRefresh ==
    \/ \E req \in RefreshRequests : handler(req)
    \/ beginRefreshViewCounts
    \/ finishRefreshViewCounts
    \/ selectViewCounts
    \/ refresh_bookshelf_views

SpecRefresh == Init /\ [][NextRefresh]_vars

\* The read endpoint over a catalog that the sync side fills
CatalogRequests == [method : {"GET", "POST", "OPTIONS"}, page : {1, 2}, limit : {20, 200}]

NextCatalog ==
    \/ \E req \in CatalogRequests : booksHandler(req)
    \/ \E site \in {"site1", "site2"} : InsertBook(site, MaxBooks)
    \/ refreshStats
    \/ refresh_bookshelf_views
    \/ SetDatastore

SpecCatalog == InitWith({}) /\ [][NextCatalog]_vars

\* One page session of the browser
NextClient ==
    \/ \E book \in PageBooks : createBookCard(book)
    \/ \E entries \in EntryBatches : viewObserver(entries)
    \/ \E call \in 1..MaxFetches, outcome \in FetchOutcomes : fetchSettles(call, outcome)

\* The debounced function under calls, as time passes
DebounceArgs == {"x", "y"}

NextDebounce ==
    \/ \E args \in DebounceArgs : executedFunction(args)
    \/ later
    \/ AdvanceClock

SpecDebounce == InitWith({}) /\ [][NextDebounce]_vars

\* The two materialized views under ingestion, the sync side, a refresh of
\* each view by its own statement, and refresh_bookshelf_views()
NextViews ==
    \/ \E req \in RefreshRequests : handler(req)
    \/ \E site \in {"site1", "site2"} : InsertBook(site, AggBooks)
    \/ refreshViewCounts
    \/ refreshStats
    \/ refresh_bookshelf_views

SpecViews == InitWith({}) /\ [][NextViews]_vars

SpecClient == InitWith({}) /\ [][NextClient]_vars

\* validateInput on its own: objects with the fields "a" and "b" against
\* schemas of two rules
ValidateValues ==
    { JSUndefined, JSNull, JSString(<<>>), JSString(<<"x">>), JSString(<<"7">>),
      JSNumber(5), JSBoolean(TRUE) }

ValidateData == [{"a", "b"} -> ValidateValues]

RuleTypes == {"string", "number", "boolean"}

Rule(field, required, type) ==
    [field |-> field, required |-> required, type |-> type, minLength |-> 0, maxLength |-> 0]

ValidateSchemas ==
    { <<Rule("a", ra, ta), Rule("b", rb, tb)>> :
        ra \in BOOLEAN, ta \in RuleTypes, rb \in BOOLEAN, tb \in RuleTypes }

NextValidate ==
    \E data \in ValidateData, schema \in ValidateSchemas : callValidateInput(data, schema)

SpecValidate == InitWith({}) /\ [][NextValidate]_vars

----------------------------------------------------------------------------
(* Properties of the ingestion endpoint *)

IsTrackView(r) == r.endpoint = "track-view"

Absorbed(r) == r.status = 200 /\ r.body.success = "true" /\ r.body.tracked = "false"

\* C1: every POST of one identifier beyond the quota-th of its window is
\* answered 429 with a positive retryAfter, whatever other identifiers do.
C1_OverQuotaRejected ==
    (IsTrackView(res) /\ res.def = 1 /\ res.limited
       /\ res.window = now \div WindowMs
       /\ posts[res.identifier] > MaxRequests)
    => (res.status = 429 /\ res.body.retryAfter > 0)

\* C2: a POST whose insert returned an error is answered 200 with
\* {success:true, tracked:false}, by either definition of the handler.
C2_InsertErrorAbsorbed ==
    (IsTrackView(res) /\ res.method = "POST" /\ res.insert = "error") => Absorbed(res)

C2_Witness ==
    IsTrackView(res) /\ res.def = 1 /\ res.insert = "error" /\ Absorbed(res)

\* C3: a POST during which the try block threw is answered with the success
\* envelope {success:true, tracked:false}, not with an error status.
C3_ExceptionAbsorbed ==
    (IsTrackView(res) /\ res.method = "POST" /\ res.threw) => Absorbed(res)

\* A number, or a string that spells a decimal integer
IsNumeral(v) ==
    \/ v.type = "number" /\ ~v.nan
    \/ /\ v.type = "string"
       /\ LET t == Trim(v.str)
          IN  \/ AllDigits(t)
              \/ t # <<>> /\ Head(t) \in {"-", "+"} /\ AllDigits(Tail(t))

NumeralValue(v) == IF v.type = "number" THEN v.num ELSE StringToNumber(v.str).num

\* The body carries no book_id, one that is no numeral, or one that is <= 0
BookIdInvalid(body) ==
    /\ body.defined
    /\ LET v == Get(body.obj, "book_id")
       IN  v = JSUndefined \/ ~IsNumeral(v) \/ NumeralValue(v) <= 0

NamesRule(r) ==
    r.body.errors # <<>> \/ r.body.message = "book_id must be a positive number"

\* C4: a POST the limiter lets through whose book_id is missing, not numeric
\* or not positive is answered 400 naming the rule, and writes no row.
C4_InvalidBookIdRejected ==
    [][(res' # res /\ IsTrackView(res') /\ res'.def = 1 /\ res'.method = "POST"
          /\ res'.status # 429 /\ BookIdInvalid(res'.reqBody))
       => (res'.status = 400 /\ NamesRule(res')
             /\ bookshelf_book_views' = bookshelf_book_views)]_vars

\* C10 as claimed: every request that is not a POST is answered 405, writes
\* no row and leaves the rate-limit table alone.
C10_NonPostRejected ==
    [][(res' # res /\ IsTrackView(res') /\ res'.method # "POST")
       => (res'.status = 405
             /\ bookshelf_book_views' = bookshelf_book_views
             /\ rateLimitStore' = rateLimitStore)]_vars

\* C10 as amended: every request that is neither a POST nor an OPTIONS is
\* answered 405; an OPTIONS is answered 405 by the second definition and
\* 200 with an empty body by the first; none of them writes a row or
\* touches the rate-limit table.
C10_NonPostNoEffect ==
    [][(res' # res /\ IsTrackView(res') /\ res'.method # "POST")
       => (res'.status = (IF res'.def = 1 /\ res'.method = "OPTIONS" THEN 200 ELSE 405)
             /\ (res'.status = 200 => res'.body = EmptyBody)
             /\ bookshelf_book_views' = bookshelf_book_views
             /\ rateLimitStore' = rateLimitStore)]_vars

C10_Witness ==
    /\ IsTrackView(res) /\ res.def = 1 /\ res.method = "GET" /\ res.status = 405
    /\ rateLimitStore # <<>>
    /\ bookshelf_book_views # {}

----------------------------------------------------------------------------
(* Properties of the aggregation layer, the read endpoint and the browser *)

Rows(views, bookId) == Cardinality({v \in views : v.book_id = bookId})

\* A step of the first definition of the handler that took a POST
Def1Post == posts' # posts /\ now' = now /\ IsTrackView(res') /\ res'.def = 1

\* C5: a POST for a stored book b that the limiter lets through, with the
\* datastore up, is answered tracked:true and adds one row for b, so that
\* the count a refresh computes for b is one higher after the call than
\* before it; and a refresh stores exactly the computed counts.
C5_IngestionCounted ==
    [][/\ \A b \in BookIds :
            (Def1Post /\ datastoreUp /\ res'.status # 429
               /\ \E v \in BookIdSpellings(b) : res'.reqBody = JsonBody(v))
            => /\ res'.status = 200 /\ res'.body.success = "true"
               /\ res'.body.tracked = "true"
               /\ Rows(bookshelf_book_views', b) = Rows(bookshelf_book_views, b) + 1
               /\ ViewCountOf(ViewCountsQuery(bookshelf_book_views'), b)
                    = ViewCountOf(ViewCountsQuery(bookshelf_book_views), b) + 1
               /\ \A c \in BookIds \ {b} :
                      Rows(bookshelf_book_views', c) = Rows(bookshelf_book_views, c)
       /\ refreshViewCounts
            => \A b \in 1..MaxBooks :
                   ViewCountOf(bookshelf_book_view_counts', b) = Rows(bookshelf_book_views, b)
      ]_vars

C5_Witness ==
    /\ IsTrackView(res) /\ res.def = 1 /\ res.body.tracked = "true"
    /\ \E b \in BookIds :
          /\ res.reqBody = JsonBody(JSString(NatToDigits(b)))
          /\ Rows(bookshelf_book_views, b) = 2
          /\ ViewCountOf(bookshelf_book_view_counts, b) = 2

\* The dataset.bookId values of the cards that can be tracked
TrackableIds == {JSToString(book.id) : book \in {k \in PageBooks : ~Falsy(JSString(JSToString(k.id)))}}

Calls(bookId) == Cardinality({i \in 1..Len(fetchCalls) : fetchCalls[i].book_id = bookId})

\* C6: in one page session a book id whose cards were reported visible any
\* number of times has exactly one POST issued for it, and a book id never
\* reported visible has none.
C6_OneCallPerBook ==
    /\ \A bookId \in TrackableIds :
          Calls(bookId) = (IF bookId \in everVisible THEN 1 ELSE 0)
    /\ \A i \in 1..Len(fetchCalls) : fetchCalls[i].book_id \in TrackableIds

\* Two cards of one book, both reported visible, one POST
C6_Witness ==
    /\ \E i, j \in 1..Len(cards) :
          i # j /\ cards[i].dataset.bookId = cards[j].dataset.bookId
                /\ cards[i].dataset.bookId \in everVisible
                /\ Calls(cards[i].dataset.bookId) = 1
    /\ <<>> \in everVisible
    /\ inFlight = {}

\* Every change of the stored counts sets them to the exact counts
RefreshIsExact ==
    /\ refreshViewCounts => bookshelf_book_view_counts' = ViewCountsQuery(bookshelf_book_views)
    /\ bookshelf_book_view_counts' # bookshelf_book_view_counts
         => \A b \in 1..MaxBooks :
                ViewCountOf(bookshelf_book_view_counts', b) = Rows(bookshelf_book_views, b)

\* C7 as claimed: a refresh stores the exact number of rows of every book,
\* and the count a reader finds for a book never decreases, whatever
\* ingestions, deletions and refreshes happen.
C7_CountNeverDecreases ==
    [][/\ RefreshIsExact
       /\ \A b \in 1..MaxBooks :
              ViewCountOf(bookshelf_book_view_counts', b)
                 >= ViewCountOf(bookshelf_book_view_counts, b)]_vars

\* C7 as amended: a refresh stores the exact number of rows of every book;
\* the stored counts change at a refresh only; and the count a reader finds
\* for a book that is still stored never decreases.
C7_CountNeverDecreasesWhileStored ==
    [][/\ RefreshIsExact
       /\ \A b \in BookIds :
              ViewCountOf(bookshelf_book_view_counts', b)
                 >= ViewCountOf(bookshelf_book_view_counts, b)]_vars

\* Book 1 was viewed, counted, deleted, and the next refresh dropped its count
C7_Witness ==
    /\ books_id_seq = 2 /\ BookIds = {2}
    /\ views_id_seq = 2
    /\ bookshelf_book_view_counts = {[book_id |-> 2, view_count |-> 1]}

IsBooks(r) == r.endpoint = "books"

\* C8: a GET with page=1 and limit=20 over a catalog of 5 books, the
\* datastore up and the statistics refreshed, is answered 200 with 5 books,
\* total 5, pages 1 and total_books 5.
C8_FiveBooksListed ==
    [][(res' # res /\ IsBooks(res') /\ res'.method = "GET"
          /\ res'.listing.reqPage = 1 /\ res'.listing.reqLimit = 20
          /\ datastoreUp /\ Cardinality(bookshelf_books) = 5
          /\ bookshelf_stats = StatsQuery(bookshelf_books, bookshelf_book_genres))
       => (res'.status = 200 /\ Len(res'.listing.books) = 5
             /\ res'.listing.total = 5 /\ res'.listing.pages = 1
             /\ res'.listing.total_books = 5)]_vars

\* C9: a GET while the datastore does not answer is answered 500 with
\* success false.
C9_UnreachableIs500 ==
    [][(res' # res /\ IsBooks(res') /\ res'.method = "GET" /\ ~datastoreUp)
       => (res'.status = 500 /\ res'.body.success = "false")]_vars

----------------------------------------------------------------------------
(* Properties of the read endpoint's method check and limit *)

\* C11: a request to the read endpoint that is not a GET is answered 405
\* with success false and changes nothing but the response.
C11_NonGetRejected ==
    [][(res' # res /\ IsBooks(res') /\ res'.method # "GET")
       => (res'.status = 405 /\ res'.body.success = "false"
             /\ UNCHANGED <<dbVars, matVars, txVars, rateLimitStore, now, datastoreUp,
                            clientVars, obsVars, utilVars>>)]_vars

C11_Witness ==
    /\ IsBooks(res) /\ res.method = "POST" /\ res.status = 405
    /\ Cardinality(bookshelf_books) = 2 /\ bookshelf_stats.total_books = 2

\* C12: a GET is answered with at most 100 books and a pagination.limit of
\* at most 100, and a requested limit above 100 comes back as limit 100.
C12_LimitCapped ==
    [][(res' # res /\ IsBooks(res') /\ res'.method = "GET")
       => (Len(res'.listing.books) <= 100 /\ res'.listing.limit <= 100
             /\ (res'.listing.reqLimit > 100 => res'.listing.limit = 100))]_vars

----------------------------------------------------------------------------
(* Properties of the refresh *)

\* C13: a reader of the view counts is never kept waiting by a refresh, and
\* what it reads is the rows stored before the refresh or the rows the
\* refresh is about to store.
C13_ReadersNeverBlocked ==
    [][(sqlResult' # sqlResult /\ sqlResult'.stmt = "select_view_counts")
       => (sqlResult'.state = "ok"
             /\ sqlResult'.rows \in {bookshelf_book_view_counts, refreshTx.rows})]_vars

\* C14: every call of refresh_bookshelf_views leaves both materialized
\* views equal to their queries, so that a second call right after it
\* changes nothing.
C14_RefreshesBoth ==
    [][(sqlResult' # sqlResult /\ sqlResult'.stmt = "refresh_bookshelf_views")
       => (sqlResult'.state = "ok"
             /\ bookshelf_book_view_counts' = ViewCountsQuery(bookshelf_book_views)
             /\ bookshelf_stats' = StatsQuery(bookshelf_books, bookshelf_book_genres))]_vars

----------------------------------------------------------------------------
(* Properties of the browser under failing POSTs *)

FetchFailed(p) == p.fetch \in {"rejected", "resolved_non2xx"}

\* C15: the promise of a trackBookView call never rejects, whatever its
\* fetch came to; and once a POST has failed, a book id reported visible
\* for the first time still gets its one POST.
C15_FailureContained ==
    [][/\ \A i \in 1..Len(promises') : promises'[i].track # "rejected"
       /\ \A bookId \in TrackableIds :
             (bookId \in everVisible' \ everVisible
                /\ \E i \in 1..Len(promises) : FetchFailed(promises[i]))
             => (Calls(bookId) = 0 /\ Calls(bookId)' = 1)]_vars

\* The first POST was rejected before the second was issued
C15_Witness ==
    /\ Len(fetchCalls) = 2
    /\ promises[1].fetch = "rejected" /\ promises[1].track = "fulfilled"
    /\ promises[1].settledAt = 1
    /\ fetchCalls[1].book_id # fetchCalls[2].book_id

----------------------------------------------------------------------------
(* Properties of the ingestion path and the limiter, continued *)

\* C16: a POST answered 200 with success true, or for which an insert was
\* attempted, passed the limiter and carried a numeric book_id > 0.
C16_SuccessOnlyForValid ==
    (IsTrackView(res) /\ res.def = 1 /\ res.method = "POST"
       /\ (res.insert # "none" \/ (res.status = 200 /\ res.body.success = "true")))
    => (res.limited /\ res.status # 429 /\ res.reqBody.defined /\ ~BookIdInvalid(res.reqBody))

\* C17: whether a POST is denied depends only on the POSTs the same
\* identifier sent in the same window: it is denied exactly when it is
\* beyond the quota-th of them.
C17_DecisionFromOwnWindowOnly ==
    [][Def1Post => (res'.status = 429 <=> posts'[res'.identifier] > MaxRequests)]_vars

\* The count rateLimit gave the call that res' answers
CountGiven ==
    MapGet(rateLimitStore', [identifier |-> res'.identifier, window |-> res'.window])

\* C18: within one window no call of an identifier is given a smaller
\* count than an earlier call of that identifier was.
C18_CountNeverDrops ==
    [][Def1Post => CountGiven >= observed[res'.identifier]]_vars

KeysOf(m) == {m[i].key : i \in 1..Len(m)}

\* The key of the call that res' answers
KeyUsed == [identifier |-> res'.identifier, window |-> res'.window]

\* C19: after every call of rateLimit the store holds at most StoreCeiling
\* keys; a call that would exceed the ceiling evicts exactly one key that
\* was already stored, any other call evicts none.
C19_StoreBounded ==
    [][Def1Post
       => /\ Len(rateLimitStore') <= StoreCeiling
          /\ KeyUsed \in KeysOf(rateLimitStore')
          /\ LET evicted == KeysOf(rateLimitStore) \ KeysOf(rateLimitStore')
             IN  IF KeyUsed \notin KeysOf(rateLimitStore) /\ Len(rateLimitStore) = StoreCeiling
                 THEN Cardinality(evicted) = 1
                 ELSE evicted = {}]_vars

\* A key of the current window has been evicted, the store is full
C19_Witness ==
    /\ Len(rateLimitStore) = StoreCeiling
    /\ \E id \in DOMAIN posts :
          /\ posts[id] > 0
          /\ [identifier |-> id, window |-> now \div WindowMs] \notin KeysOf(rateLimitStore)

\* C20: an ingestion call leaves every stored view row as it is, adds at
\* most one, and changes neither the books, the genres nor the materialized
\* views; the stored view counts change only by being set to their query.
C20_IngestionOnlyAppends ==
    [][/\ Def1Post
          => /\ bookshelf_book_views \subseteq bookshelf_book_views'
             /\ Cardinality(bookshelf_book_views' \ bookshelf_book_views) <= 1
             /\ UNCHANGED <<matVars, bookshelf_books, bookshelf_book_genres>>
       /\ bookshelf_book_view_counts' # bookshelf_book_view_counts
          => /\ ~Def1Post
             /\ bookshelf_book_views' = bookshelf_book_views
             /\ bookshelf_book_view_counts' = ViewCountsQuery(bookshelf_book_views)]_vars

\* A second view of a book was stored after the refresh that counted the first
C20_Witness ==
    /\ IsTrackView(res) /\ res.def = 1 /\ res.body.tracked = "true"
    /\ \E b \in BookIds :
          /\ Rows(bookshelf_book_views, b) = 2
          /\ ViewCountOf(bookshelf_book_view_counts, b) = 1

----------------------------------------------------------------------------
(* Properties settled last *)

\* C21: a POST whose insert the datastore never answers is eventually
\* answered 200 with {success:true, tracked:false}.
C21_HungInsertAnswered ==
    (IsTrackView(res) /\ res.def = 1 /\ res.insert = "hang")
       ~> (IsTrackView(res) /\ res.def = 1 /\ res.insert = "hang" /\ Absorbed(res))

\* The value is not of the type the rule names; a number may be given as a
\* number or as a string that spells one
WrongType(v, type) ==
    CASE type = "string"  -> v.type # "string"
      [] type = "number"  -> ~IsNumeral(v)
      [] type = "boolean" -> v.type # "boolean"
      [] OTHER            -> FALSE

\* The field of the rule is required and missing, or present with the wrong type
Violates(data, rule) ==
    LET v == Get(data, rule.field)
    IN  IF IsEmptyValue(v) THEN rule.required ELSE WrongType(v, rule.type)

HasErrorFor(result, field) ==
    \E j \in 1..Len(result.errors) : result.errors[j].field = field

\* C22: the errors validateInput returns hold an entry for every schema
\* field that is required but missing or of the wrong type, and isValid is
\* true exactly when the errors are empty.
C22_AllViolationsListed ==
    validateCall.called =>
        /\ \A i \in 1..Len(validateCall.schema) :
              Violates(validateCall.data, validateCall.schema[i])
                 => HasErrorFor(validateCall.result, validateCall.schema[i].field)
        /\ validateCall.result.isValid <=> (validateCall.result.errors = <<>>)

\* C23: a step that changes the view counts leaves the statistics as they
\* were, a step that changes the statistics leaves the view counts as they
\* were, and a call of refresh_bookshelf_views in which a refresh failed
\* still leaves the statistics refreshed.
C23_RefreshedIndependently ==
    [][/\ (bookshelf_book_view_counts' # bookshelf_book_view_counts
            => bookshelf_stats' = bookshelf_stats)
       /\ (bookshelf_stats' # bookshelf_stats
            => bookshelf_book_view_counts' = bookshelf_book_view_counts)
       /\ ((sqlResult' # sqlResult /\ sqlResult'.stmt = "refresh_bookshelf_views"
               /\ sqlResult'.state = "error")
            => bookshelf_stats' = StatsQuery(bookshelf_books, bookshelf_book_genres))]_vars

\* The count the store held for the key of the call that res' answers (no key: 0)
CountBefore == IF MapHas(rateLimitStore, KeyUsed) THEN MapGet(rateLimitStore, KeyUsed) ELSE 0

\* C24: every POST that reaches the limiter adds one to the count of its
\* identifier and window, whatever it is answered; and a POST beyond the
\* quota-th of its identifier in the window is answered 429, also when the
\* earlier ones or this one carried an invalid payload.
C24_EveryPostCounts ==
    [][Def1Post
       => /\ CountGiven = CountBefore + 1
          /\ posts'[res'.identifier] > MaxRequests => res'.status = 429]_vars

\* C25: a call of rateLimit that writes a new key into a full store evicts
\* the oldest inserted key and nothing else, never the key it has just
\* written, and the count it gives its caller, and the decision taken on
\* it, are those of a call without eviction.
C25_EvictsOldestNotOwn ==
    [][(Def1Post /\ KeyUsed \notin KeysOf(rateLimitStore)
          /\ Len(rateLimitStore) = StoreCeiling)
       => /\ KeysOf(rateLimitStore) \ KeysOf(rateLimitStore') = {Head(rateLimitStore).key}
          /\ KeyUsed # Head(rateLimitStore).key
          /\ KeyUsed \in KeysOf(rateLimitStore')
          /\ rateLimitStore' = Append(Tail(rateLimitStore), [key |-> KeyUsed, value |-> 1])
          /\ CountGiven = 1
          /\ res'.status # 429]_vars

\* The last call wrote a new key into a full store: its key is the newest
\* of the store with count 1, and the key of another identifier that
\* posted in this window is gone
C25_Witness ==
    /\ IsTrackView(res) /\ res.def = 1 /\ res.limited
    /\ res.window = now \div WindowMs
    /\ Len(rateLimitStore) = StoreCeiling
    /\ rateLimitStore[StoreCeiling] =
          [key |-> [identifier |-> res.identifier, window |-> res.window], value |-> 1]
    /\ \E id \in DOMAIN posts \ {res.identifier} :
          /\ posts[id] > 0
          /\ [identifier |-> id, window |-> res.window] \notin KeysOf(rateLimitStore)

\* The book id the POST that res' answers asked to record
BookAsked == NumeralValue(Get(res'.reqBody.obj, "book_id"))

\* C26: every stored view row references a stored book; a POST for a book
\* id that has no book row stores no view row and is answered tracked:false;
\* a step that removes a book leaves no view row of it.
C26_ViewsReferenceBooks ==
    /\ [](\A v \in bookshelf_book_views : v.book_id \in BookIds)
    /\ [][/\ (Def1Post /\ res'.status \notin {400, 429} /\ BookAsked \notin BookIds)
              => /\ bookshelf_book_views' = bookshelf_book_views
                 /\ res'.insert = "error"
                 /\ Absorbed(res')
          /\ \A b \in bookshelf_books \ bookshelf_books' :
                 \A v \in bookshelf_book_views' : v.book_id # b.id]_vars

\* A view row was stored and went with its book, and the last POST, for a
\* book id without a book row, was answered tracked:false
C26_Witness ==
    /\ views_id_seq > 0
    /\ bookshelf_book_views = {}
    /\ IsTrackView(res) /\ res.def = 1 /\ res.insert = "error" /\ Absorbed(res)
    /\ NumeralValue(Get(res.reqBody.obj, "book_id")) \notin BookIds

IsCall(i) == debounceLog[i].kind = "call"

IsFunc(i) == debounceLog[i].kind = "func"

\* Every invocation of func comes right after a call, at least `wait`
\* after it, and with the args of that call
InvokedAfterQuiet ==
    \A j \in 1..Len(debounceLog) :
        IsFunc(j) => /\ j > 1
                     /\ IsCall(j - 1)
                     /\ debounceLog[j].args = debounceLog[j - 1].args
                     /\ debounceLog[j].at >= debounceLog[j - 1].at + DebounceWait

\* C27 as claimed: func is invoked only `wait` after the most recent call
\* and with its args, and of two calls in a row that are `wait` or more
\* apart (the second one starts a new burst) the first is followed by an
\* invocation of func.
C27_OnePerBurst ==
    /\ InvokedAfterQuiet
    /\ \A i \in 1..(Len(debounceLog) - 1) :
          (IsCall(i) /\ IsCall(i + 1))
             => debounceLog[i + 1].at - debounceLog[i].at < DebounceWait

\* C27 as amended: func is invoked only `wait` or more after the most
\* recent call and with its args; a call cancels the timer that is
\* pending, however long it has been due, so that after a call exactly one
\* timer is pending, the one of that call, and after an invocation none:
\* every run of calls that each arrive before the pending timer has fired
\* gets one invocation.
C27_OnePerRunOfCalls ==
    /\ InvokedAfterQuiet
    /\ IF debounceLog # <<>> /\ IsCall(Len(debounceLog))
       THEN timers = {[id   |-> timeout,
                       due  |-> debounceLog[Len(debounceLog)].at + DebounceWait,
                       args |-> debounceLog[Len(debounceLog)].args]}
       ELSE timers = {}

\* Two calls with different args, then one invocation of func, with the
\* args of the second
C27_Witness ==
    \E j \in 3..Len(debounceLog) :
        /\ IsFunc(j) /\ IsCall(j - 1) /\ IsCall(j - 2)
        /\ debounceLog[j].args = debounceLog[j - 1].args
        /\ debounceLog[j].args # debounceLog[j - 2].args

====
